---- MODULE Spec2Model ----
(***************************************************************************)
(* A model of the asynchronous sequence engine of iterates                 *)
(* (src/src/async.ts): the Subject with its per-consumer Subscriber        *)
(* cursors, run by a single-threaded scheduler with a FIFO queue of        *)
(* promise jobs (microtasks).                                              *)
(*                                                                         *)
(* Promises.  A call of the async function iterator.next() is one entry of *)
(* calls[c].  It first evaluates `await lastNext` (st = "awaiting", `on`   *)
(* is the promise lastNext held when the call was made: 0 is the initial   *)
(* Promise.resolve(), i > 0 the promise created by call i of the cursor).  *)
(* Its continuation is a job "cont"; it runs the executor of the new       *)
(* promise, which either shifts an item (st = "inner": the new promise is  *)
(* settled) or registers a once('value') listener (st = "suspended").  The *)
(* promise the caller holds adopts the new promise; its settlement is the  *)
(* job "settle" (st = "settled").  Jobs run in FIFO order; the calls of    *)
(* the producer and of the consumers may happen between any two jobs.      *)
(*                                                                         *)
(* Operators.  takeUntil, take, throttle, zip, fold, scan, all, any and    *)
(* find are each one run of the operator's body over an upstream sequence  *)
(* that delivers its items in order, and then its completion, whenever it  *)
(* chooses (as the cursor of a Subject does for a consumer that advances   *)
(* it sequentially, which a for await loop is).  Each operator has its own *)
(* specification: SpecTakeUntil, SpecTake, SpecThrottle, SpecZip,          *)
(* SpecFold, SpecScan, SpecAllAny, SpecFind.  collect and collectRecord    *)
(* are modelled the same way in SpecCollect.                               *)
(*                                                                         *)
(* Currying.  SpecCurry applies the operators built with curry2,           *)
(* curry2WithOptions and autoCurry (the utilities of the library) in each  *)
(* of their call shapes to arguments drawn from a small set of JavaScript  *)
(* values.                                                                 *)
(*                                                                         *)
(* Derived sequences.  SpecDerived is map(fn, subject): the async          *)
(* generator over a cursor of the Subject, with the Subject's own actions. *)
(***************************************************************************)
EXTENDS Integers, Sequences, FiniteSets, TLC

\* Bounds of the model.
MaxConsumers == 2   \* cursors created with [Symbol.asyncIterator]()
MaxCalls == 3       \* iterator.next() calls, over all cursors
MaxOps == 2         \* Subject.next / throw / done calls
MaxSeq == 3         \* items of the sequence given to an operator
MaxClock == 3       \* the largest reading of Date.now()
MaxDuration == 2    \* the largest duration given to throttle
MaxInitial == 2     \* the largest initialValue given to fold and scan
MaxAdvances == 2    \* next() calls made on a generator over a Subject

Consumers == 1..MaxConsumers

VARIABLES
  _subscribers,  \* Subject._subscribers: the Set, in insertion order
  _isDisposed,   \* Subject._isDisposed
  items,         \* Subscriber.items, per consumer
  listeners,     \* once('value') listeners of Subscriber.eventEmitter: call ids
  lastNext,      \* the closure variable lastNext of each cursor (a promise id)
  calls,         \* the iterator.next() calls of each cursor
  micro,         \* the scheduler's FIFO queue of promise jobs
  created,       \* number of cursors created so far
  shifted,       \* history: the items shifted out of each Subscriber.items
  attachAt,      \* history: number of producer calls made when the cursor was created
  pushed,        \* history: the values of the Subject.next calls that passed _checkDisposed
                 \* (the n-th producer call pushes the value n)
  ops,           \* history: number of producer calls made
  lastOp,        \* history: the last producer call and how it ended
  doneCalled,    \* history: Subject.done() has been called
  throwCalled,   \* history: Subject.throw() has been called
  overlapped     \* history: the cursor got a next() call while an earlier one was unsettled

\* takeUntil(notifier, asyncIterator), one run of the async generator
VARIABLES
  pc,            \* where the generator is: "start", "awaitSeq", "yield", "awaitReturn", "done"
  didResolve,    \* the local variable didResolve
  returnValue,   \* the promise returnValue: what it is resolved with, once it is
  notifier,      \* the promise of the notifier's first next(): [st, res]
  seqLen,        \* the number of items asyncIterator has before it completes
  seqPos,        \* the number of items asyncIterator has produced
  seqPending,    \* asyncIterator.next() has been called and has not settled
  seqResult,     \* the result the for await loop is resumed with
  jobs,          \* the scheduler's FIFO queue of promise jobs of this run
  pending,       \* a next() call on the generator has not settled
  out,           \* history: the items the generator yielded
  retVal,        \* the return value the generator ended with
  atNotify       \* history: when the notifier settled, the number of items asyncIterator
                 \* had produced and whether its completion had settled

\* The operators over one upstream sequence (take, throttle, fold, scan, all,
\* any, find) and zip(a, b): one run of the operator.  They use pc, seqLen,
\* seqPos, seqPending, seqResult, jobs, pending and out as takeUntil does: the
\* upstream asyncIterator (a, for zip), the loop's position, the scheduler's
\* jobs, the caller's unsettled call, and the items yielded.
VARIABLES
  operator,      \* the operator that is run
  count,         \* take: the parameter count
  index,         \* take: the local variable index
  duration,      \* throttle: the parameter duration
  hasItem,       \* throttle: the local variable hasItem
  lastItem,      \* throttle: the local variable lastItem (0 is undefined)
  lastYield,     \* throttle: the local variable lastYield
  clock,         \* the last reading of Date.now()
  received,      \* history: the items throttle received, each with the clock reading
                 \* taken for it and whether it was yielded at once
  initialValue,  \* fold, scan: the parameter initialValue
  foldValue,     \* fold, scan: the local variable value
  combine,       \* fold, scan: the parameter combine (the name of a function)
  fn,            \* all, any, find: the items for which the parameter fn returns true
  bLen,          \* zip: the number of items b has before it completes
  bPos,          \* zip: the number of items b has produced
  bPending,      \* zip: iteratorB.next() has been called and has not settled
  bResult,       \* zip: the result of the last iteratorB.next()
  collection,    \* collect, collectRecord: the local variable collection, or record:
                 \* the value held under each key that was set
  merge,         \* collect, collectRecord: the option merge (the name of a function,
                 \* or "undefined")
  keys,          \* collect, collectRecord: the key that the parameter fn returns for
                 \* each item; the value it returns for the item i is [i]
  mergeCalls,    \* history: the calls of merge, each with its arguments
  argX,          \* currying: the second argument x of a call op(fn, x)
  argSeq,        \* currying: the sequence a call is given
  argOptions,    \* currying: the options a call is given
  applied,       \* currying: what each shape of call that was made has returned
  cursor,        \* map over a Subject: the Subject cursor of the generator (0: none)
  requests,      \* map over a Subject: the next() calls on the generator that have
                 \* not settled, in the order they were made
  issued,        \* history: the number of next() calls made on the generator
  settledAs,     \* history: the results of the generator's next() calls, in the
                 \* order they settled, each with the number of its call and
                 \* the number of calls that were unsettled when it settled
  atFirstAdvance, \* history: the number of producer calls made before the first
                 \* next() call on the generator (-1 before that call)
  attached,      \* history: [Symbol.asyncIterator]() of the upstream has been called
  pulls,         \* history: the next() calls made upstream, "a" or "b" each
  returned       \* what the operator ended with: the value of its last IteratorResult
                 \* (generators) or of its promise (fold, all, any, find)

subjectVars == <<_subscribers, _isDisposed, items, listeners, lastNext, calls, micro,
                 created, shifted, attachAt, pushed, ops, lastOp, doneCalled,
                 throwCalled, overlapped>>

takeUntilVars == <<pc, didResolve, returnValue, notifier, seqLen, seqPos, seqPending,
                   seqResult, jobs, pending, out, retVal, atNotify>>

takeVars == <<count, index>>
throttleVars == <<duration, hasItem, lastItem, lastYield, clock, received>>
foldVars == <<initialValue, foldValue, combine>>
zipVars == <<bLen, bPos, bPending, bResult>>
collectVars == <<collection, merge, keys, mergeCalls>>
curryVars == <<argX, argSeq, argOptions, applied>>
derivedVars == <<cursor, requests, issued, settledAs, atFirstAdvance>>

operatorVars == <<operator, takeVars, throttleVars, foldVars, fn, zipVars,
                  collectVars, curryVars, derivedVars, attached, pulls, returned>>

vars == <<subjectVars, takeUntilVars, operatorVars>>

\* The variables a Subject operation, and a takeUntil step, leave alone
notSubjectVars == <<takeUntilVars, operatorVars>>
notTakeUntilVars == <<subjectVars, operatorVars>>

\* The variables of takeUntil alone, and what a step of another operator leaves alone
takeUntilLocals == <<didResolve, returnValue, notifier, retVal, atNotify>>
notOperatorVars ==
  <<subjectVars, takeUntilLocals, collectVars, curryVars, derivedVars>>

----------------------------------------------------------------------------
\* Subscriber.items entries: {done, isError, value?, error?}; value holds the
\* pushed value or the error.
ValueItem(v) == [done |-> FALSE, isError |-> FALSE, value |-> v]
ErrorItem(e) == [done |-> FALSE, isError |-> TRUE, value |-> e]
DoneItem == [done |-> TRUE, isError |-> FALSE, value |-> 0]
NoItem == [done |-> FALSE, isError |-> FALSE, value |-> 0]

IsTerminal(item) == item.done \/ item.isError

Remove(s, x) == SelectSeq(s, LAMBDA y : y # x)

\* The mutable objects an operation works on, as one record.
Heap ==
  [subscribers |-> _subscribers, items |-> items, listeners |-> listeners,
   calls |-> calls, micro |-> micro, shifted |-> shifted, threw |-> FALSE]

\* resolve({done, value}) / reject(error) of the promise created by call i of
\* cursor c: the caller's promise is settled by a later job, and the calls that
\* were awaiting this promise as lastNext are resumed, in the order they were made.
SettlePromise(h, c, i, item) ==
  LET waiters == SelectSeq([j \in 1..Len(h.calls[c]) |-> j],
                   LAMBDA j : h.calls[c][j].st = "awaiting" /\ h.calls[c][j].on = i)
  IN [h EXCEPT
        !.calls[c][i] = [@ EXCEPT !.st = "inner", !.res = item],
        !.micro = @ \o <<[job |-> "settle", c |-> c, i |-> i]>>
                    \o [k \in 1..Len(waiters) |->
                          [job |-> "cont", c |-> c, i |-> waiters[k]]]]

\* The body shared by the executor and by the once('value') listener:
\* const item = this.items.shift()!; reject(item.error) or resolve({...}).
\* With an empty queue shift() gives undefined and item.isError throws.
ShiftAndSettle(h, c, i) ==
  IF h.items[c] = <<>>
    THEN [h EXCEPT !.threw = TRUE]
    ELSE SettlePromise([h EXCEPT !.items[c] = Tail(@),
                                 !.shifted[c] = Append(@, Head(h.items[c]))],
                       c, i, Head(h.items[c]))

\* eventEmitter.emit('value'): the listeners registered when emit starts are
\* called in order, each once-listener being removed before it runs; a listener
\* that throws ends the emit, and the exception reaches the caller of emit.
RECURSIVE EmitValue(_, _, _)
EmitValue(h, c, ls) ==
  IF ls = <<>> \/ h.threw THEN h
  ELSE EmitValue(ShiftAndSettle([h EXCEPT !.listeners[c] = Remove(@, Head(ls))],
                                c, Head(ls)),
                 c, Tail(ls))

Emit(h, c) == EmitValue(h, c, h.listeners[c])

DisposeNothing(h, c) == h

\* The dispose callback given to the Subscriber: this._subscribers.delete(subscriber)
Dispose(h, c) == [h EXCEPT !.subscribers = Remove(@, c)]

\* Subscriber.pushNext
PushNext(h, c, v) == Emit([h EXCEPT !.items[c] = Append(@, ValueItem(v))], c)

\* Subscriber.pushThrow
PushThrow(h, c, e) ==
  Emit(Dispose([h EXCEPT !.items[c] = Append(@, ErrorItem(e))], c), c)

\* Subscriber.done
SubscriberDone(h, c) ==
  Emit(Dispose([h EXCEPT !.items[c] = Append(@, DoneItem)], c), c)

Push(h, c, kind, v) ==
  CASE kind = "next" -> PushNext(h, c, v)
    [] kind = "throw" -> PushThrow(h, c, v)
    [] OTHER -> SubscriberDone(h, c)

\* for (const subscriber of this._subscribers) subscriber.push...(...): the
\* subscribers are visited in insertion order; an exception leaves the loop.
RECURSIVE ForEachSubscriber(_, _, _, _)
ForEachSubscriber(h, subs, kind, v) ==
  IF subs = <<>> \/ h.threw THEN h
  ELSE ForEachSubscriber(Push(h, Head(subs), kind, v), Tail(subs), kind, v)

\* Subject._checkDisposed: TRUE when it throws
CheckDisposed == _isDisposed

----------------------------------------------------------------------------
\* lastOp: the call, how it ended ("none": it returned; "disposed": the fault of
\* _checkDisposed; "TypeError": an exception of a listener), and whether done()
\* or throw() had been called before it
NoOp == [op |-> "none", fault |-> "none", afterDone |-> FALSE, afterThrow |-> FALSE]

Op(op, fault) ==
  [op |-> op, fault |-> fault, afterDone |-> doneCalled, afterThrow |-> throwCalled]

InitSubject ==
  /\ _subscribers = <<>>
  /\ _isDisposed = FALSE
  /\ items = [c \in Consumers |-> <<>>]
  /\ listeners = [c \in Consumers |-> <<>>]
  /\ lastNext = [c \in Consumers |-> 0]
  /\ calls = [c \in Consumers |-> <<>>]
  /\ micro = <<>>
  /\ created = 0
  /\ shifted = [c \in Consumers |-> <<>>]
  /\ attachAt = [c \in Consumers |-> 0]
  /\ pushed = <<>>
  /\ ops = 0
  /\ lastOp = NoOp
  /\ doneCalled = FALSE
  /\ throwCalled = FALSE
  /\ overlapped = [c \in Consumers |-> FALSE]

\* An IteratorResult {done, value}; value 0 stands for undefined
Result(done, value) == [done |-> done, value |-> value]
Undefined == Result(TRUE, 0)
NoPromise == [st |-> "none", res |-> Undefined]

\* How the generator ended: not yet, with undefined, or with an IteratorResult
NoReturn == [kind |-> "none", res |-> Undefined]

InitTakeUntil(n) ==
  /\ pc = "start"
  /\ didResolve = FALSE
  /\ returnValue = NoPromise
  /\ notifier = NoPromise
  /\ seqLen = n
  /\ seqPos = 0
  /\ seqPending = FALSE
  /\ seqResult = Undefined
  /\ jobs = <<>>
  /\ pending = FALSE
  /\ out = <<>>
  /\ retVal = NoReturn
  /\ atNotify = [settled |-> FALSE, produced |-> 0, ended |-> FALSE]

\* A value passed to a curried operator, as far as the wrappers of utils.ts look
\* at it: whether it is undefined, null or another value, and, for each of
\* its properties next, [Symbol.iterator] and [Symbol.asyncIterator], whether
\* it is absent, a function or something else.  merge tells the options
\* objects apart.
Props == {"absent", "function", "other"}

JsValue(kind, n, i, ai, m) ==
  [kind |-> kind, next |-> n, iterator |-> i, asyncIterator |-> ai, merge |-> m]

JsUndefined == JsValue("undefined", "absent", "absent", "absent", "absent")
JsNull == JsValue("null", "absent", "absent", "absent", "absent")

\* The shapes of call of a curried operator
Shapes ==
  {"op(a, b)", "op(a)(b)", "op(init, combine, seq)", "op(init, combine)(seq)",
   "op(fn, x)", "op(fn, seq, opts)", "op(fn)(seq, opts)", "op(fn, opts)(seq)"}

\* No call of the shape was made
NotCalled == [kind |-> "none", form |-> "none", args |-> <<>>]

\* What an operator ended with: nothing yet, or a value: undefined, a number, a
\* boolean (as 0 or 1), or, with the types "a" and "b", the very object that
\* was passed to zip as a or as b
Returned(type, v) == [st |-> "returned", type |-> type, v |-> v]
NotReturned == [st |-> "running", type |-> "undefined", v |-> 0]

\* The parameters of an operator call other than the upstream sequence
NoParams ==
  [count |-> 0, duration |-> 0, initialValue |-> 0, combine |-> "sum", fn |-> {},
   bLen |-> 0, merge |-> "undefined", keys |-> <<>>, x |-> JsUndefined,
   seq |-> JsUndefined, options |-> JsUndefined]

\* The state when the operator op is called with the parameters p: nothing of
\* its body has run
InitOperator(op, p) ==
  /\ operator = op
  /\ count = p.count
  /\ index = 0
  /\ duration = p.duration
  /\ hasItem = FALSE
  /\ lastItem = 0
  /\ lastYield = 0
  /\ clock = 0
  /\ received = <<>>
  /\ initialValue = p.initialValue
  /\ foldValue = p.initialValue
  /\ combine = p.combine
  /\ fn = p.fn
  /\ bLen = p.bLen
  /\ bPos = 0
  /\ bPending = FALSE
  /\ bResult = Undefined
  /\ collection = [key \in {} |-> <<>>]
  /\ merge = p.merge
  /\ keys = p.keys
  /\ mergeCalls = <<>>
  /\ argX = p.x
  /\ argSeq = p.seq
  /\ argOptions = p.options
  /\ applied = [shape \in Shapes |-> NotCalled]
  /\ cursor = 0
  /\ requests = <<>>
  /\ issued = 0
  /\ settledAs = <<>>
  /\ atFirstAdvance = 0 - 1
  /\ attached = FALSE
  /\ pulls = <<>>
  /\ returned = NotReturned

Init == InitSubject /\ InitTakeUntil(0) /\ InitOperator("none", NoParams)

RECURSIVE CallsUpTo(_)
CallsUpTo(c) == IF c = 0 THEN 0 ELSE Len(calls[c]) + CallsUpTo(c - 1)

\* The number of iterator.next() calls made so far, over all cursors
TotalCalls == CallsUpTo(MaxConsumers)

\* What a producer call leaves behind in the objects it worked on.
Store(h) ==
  /\ items' = h.items
  /\ listeners' = h.listeners
  /\ calls' = h.calls
  /\ micro' = h.micro
  /\ shifted' = h.shifted

\* A producer call that _checkDisposed ends with Error('The Subject have been disposed')
Disposed(op) ==
  /\ lastOp' = Op(op, "disposed")
  /\ UNCHANGED <<_subscribers, _isDisposed, items, listeners, calls, micro,
                 shifted, pushed>>

Fault(h) == IF h.threw THEN "TypeError" ELSE "none"

\* Subject.next(item); the item pushed by the n-th producer call is n
SubjectNext ==
  /\ UNCHANGED notSubjectVars
  /\ ops < MaxOps
  /\ ops' = ops + 1
  /\ UNCHANGED <<lastNext, created, attachAt, doneCalled, throwCalled, overlapped>>
  /\ IF CheckDisposed THEN Disposed("next")
     ELSE LET h == ForEachSubscriber(Heap, _subscribers, "next", ops + 1)
          IN /\ Store(h)
             /\ pushed' = Append(pushed, ops + 1)
             /\ lastOp' = Op("next", Fault(h))
             /\ UNCHANGED <<_subscribers, _isDisposed>>

\* this._subscribers.clear() at the end of Subject.throw and Subject.done; it
\* is not reached when the loop before it threw
ClearSubscribers(h) == IF h.threw THEN h.subscribers ELSE <<>>

\* this._isDisposed = true, the last statement of Subject.done
MarkDisposed(h) == IF h.threw THEN _isDisposed ELSE TRUE

\* Subject.throw(error); the error thrown by the n-th producer call is n
SubjectThrow ==
  /\ UNCHANGED notSubjectVars
  /\ ops < MaxOps
  /\ ops' = ops + 1
  /\ throwCalled' = TRUE
  /\ UNCHANGED <<lastNext, created, attachAt, doneCalled, overlapped>>
  /\ IF CheckDisposed THEN Disposed("throw")
     ELSE LET h == ForEachSubscriber(Heap, _subscribers, "throw", ops + 1)
          IN /\ Store(h)
             /\ _subscribers' = ClearSubscribers(h)
             /\ lastOp' = Op("throw", Fault(h))
             /\ UNCHANGED <<_isDisposed, pushed>>

\* Subject.done()
SubjectDone ==
  /\ UNCHANGED notSubjectVars
  /\ ops < MaxOps
  /\ ops' = ops + 1
  /\ doneCalled' = TRUE
  /\ UNCHANGED <<lastNext, created, attachAt, throwCalled, overlapped>>
  /\ IF CheckDisposed THEN Disposed("done")
     ELSE LET h == ForEachSubscriber(Heap, _subscribers, "done", 0)
          IN /\ Store(h)
             /\ _subscribers' = ClearSubscribers(h)
             /\ _isDisposed' = MarkDisposed(h)
             /\ lastOp' = Op("done", Fault(h))
             /\ UNCHANGED pushed

\* Subject[Symbol.asyncIterator](): a new Subscriber, added to _subscribers;
\* its queue starts empty and its lastNext is Promise.resolve()
NewSubscriberItemsReplayed == [k \in 1..Len(pushed) |-> ValueItem(pushed[k])]

NewSubscriberItems == <<>>

Attach ==
  /\ UNCHANGED notSubjectVars
  /\ created < MaxConsumers
  /\ created' = created + 1
  /\ _subscribers' = Append(_subscribers, created + 1)
  /\ items' = [items EXCEPT ![created + 1] = NewSubscriberItems]
  /\ attachAt' = [attachAt EXCEPT ![created + 1] = ops]
  /\ UNCHANGED <<_isDisposed, listeners, lastNext, calls, micro, shifted,
                 pushed, ops, lastOp, doneCalled, throwCalled, overlapped>>

IsSettledPromise(c, p) == p = 0 \/ calls[c][p].st \in {"inner", "settled"}

\* The promise a new call awaits: the value of lastNext when next() is called
AwaitedPromise(c) == lastNext[c]

\* iterator.next() up to `await lastNext`: the continuation is queued at once
\* when lastNext is already settled, and when it settles otherwise
AdvanceCursor(c) ==
  /\ LET on == AwaitedPromise(c)
         i == Len(calls[c]) + 1
     IN /\ calls' = [calls EXCEPT ![c] =
                       Append(@, [st |-> "awaiting", on |-> on, res |-> NoItem])]
        /\ micro' = IF IsSettledPromise(c, on)
                      THEN Append(micro, [job |-> "cont", c |-> c, i |-> i])
                      ELSE micro
  /\ overlapped' = [overlapped EXCEPT ![c] =
                      @ \/ \E j \in 1..Len(calls[c]) : calls[c][j].st # "settled"]
  /\ UNCHANGED <<_subscribers, _isDisposed, items, listeners, lastNext, created,
                 shifted, attachAt, pushed, ops, lastOp, doneCalled, throwCalled>>

\* A consumer calls next() on a cursor it holds
Advance(c) ==
  /\ UNCHANGED notSubjectVars
  /\ c <= created
  /\ TotalCalls < MaxCalls
  /\ AdvanceCursor(c)

\* The executor of the promise created by call i: an item is waiting, or a
\* once('value') listener is registered
Executor(h, c, i) ==
  IF h.items[c] # <<>>
    THEN ShiftAndSettle(h, c, i)
    ELSE [h EXCEPT !.listeners[c] = Append(@, i),
                   !.calls[c][i] = [@ EXCEPT !.st = "suspended"]]

\* The rest of iterator.next() after `await lastNext`: a rejected lastNext is
\* rethrown by the await and rejects the call; otherwise
\* return (lastNext = new Promise(executor))
RunCont ==
  /\ UNCHANGED notSubjectVars
  /\ micro # <<>>
  /\ Head(micro).job = "cont"
  /\ LET c == Head(micro).c
         i == Head(micro).i
         on == calls[c][i].on
     IN IF on # 0 /\ calls[c][on].res.isError
          THEN /\ calls' = [calls EXCEPT ![c][i] =
                              [@ EXCEPT !.st = "settled", !.res = calls[c][on].res]]
               /\ micro' = Tail(micro)
               /\ UNCHANGED <<items, listeners, shifted, lastNext>>
          ELSE LET h == Executor([Heap EXCEPT !.micro = Tail(micro)], c, i)
               IN /\ Store(h)
                  /\ lastNext' = [lastNext EXCEPT ![c] = i]
  /\ UNCHANGED <<_subscribers, _isDisposed, created, attachAt, pushed, ops,
                 lastOp, doneCalled, throwCalled, overlapped>>

\* The promise returned by iterator.next() settles as the promise it adopted did
RunSettle ==
  /\ UNCHANGED notSubjectVars
  /\ micro # <<>>
  /\ Head(micro).job = "settle"
  /\ calls' = [calls EXCEPT ![Head(micro).c][Head(micro).i].st = "settled"]
  /\ micro' = Tail(micro)
  /\ UNCHANGED <<_subscribers, _isDisposed, items, listeners, lastNext, created,
                 shifted, attachAt, pushed, ops, lastOp, doneCalled, throwCalled,
                 overlapped>>

Next ==
  \/ Attach
  \/ \E c \in Consumers : Advance(c)
  \/ SubjectNext
  \/ SubjectThrow
  \/ SubjectDone
  \/ RunCont
  \/ RunSettle

Spec == Init /\ [][Next]_vars

----------------------------------------------------------------------------
\* takeUntil.  The generator body runs when the consumer calls next(); it
\* stops at each await (of asyncIterator.next() in the for await loop, of
\* returnValue) and at each yield.  The then-callback of the notifier's promise
\* and the continuations of the awaits are promise jobs, run in FIFO order.
\* asyncIterator and the notifier are any sources: when their next() settles is
\* up to them.  The cursor of asyncIterator has no return() method (as the
\* cursor of a Subject), so leaving the loop with break awaits nothing.

NotifierResults == {Result(FALSE, 9), Undefined}

\* for await: asyncIterator.next() is called and awaited
PullSeq ==
  /\ seqPending' = TRUE
  /\ pc' = "awaitSeq"

\* The consumer calls next() on the generator.  The first call runs the body
\* from its start: didResolve = false, the notifier's next() is called and its
\* then-callback registered, and the loop pulls the first item.  A call on a
\* generator suspended at a yield resumes the loop, which pulls the next item.
TakeUntilNext ==
  /\ ~pending
  /\ pc \in {"start", "yield"}
  /\ pending' = TRUE
  /\ PullSeq
  /\ notifier' = IF pc = "start" THEN [st |-> "pending", res |-> Undefined] ELSE notifier
  /\ UNCHANGED <<didResolve, returnValue, seqLen, seqPos, seqResult, jobs, out,
                 retVal, atNotify>>
  /\ UNCHANGED notTakeUntilVars

\* The notifier's first next() settles, with an item or with completion; its
\* then-callback becomes a job
NotifierSettles(r) ==
  /\ notifier.st = "pending"
  /\ notifier' = [st |-> "settled", res |-> r]
  /\ jobs' = Append(jobs, "then")
  /\ atNotify' = [settled |-> TRUE, produced |-> seqPos,
                  ended |-> ~seqPending /\ seqResult.done]
  /\ UNCHANGED <<pc, didResolve, returnValue, seqLen, seqPos, seqPending,
                 seqResult, pending, out, retVal>>
  /\ UNCHANGED notTakeUntilVars

\* asyncIterator.next() settles, with the next item or with completion; the
\* continuation of the loop's await becomes a job
SeqSettles ==
  /\ seqPending
  /\ seqPending' = FALSE
  /\ IF seqPos < seqLen
       THEN seqPos' = seqPos + 1 /\ seqResult' = Result(FALSE, seqPos + 1)
       ELSE seqPos' = seqPos /\ seqResult' = Undefined
  /\ jobs' = Append(jobs, "loop")
  /\ UNCHANGED <<pc, didResolve, returnValue, notifier, seqLen, pending, out,
                 retVal, atNotify>>
  /\ UNCHANGED notTakeUntilVars

\* .then(returnValue => { didResolve = true; return returnValue })
RunThen ==
  /\ jobs # <<>>
  /\ Head(jobs) = "then"
  /\ jobs' = Tail(jobs)
  /\ didResolve' = TRUE
  /\ returnValue' = [st |-> "resolved", res |-> notifier.res]
  /\ UNCHANGED <<pc, notifier, seqLen, seqPos, seqPending, seqResult, pending,
                 out, retVal, atNotify>>
  /\ UNCHANGED notTakeUntilVars

\* What the generator does when the loop is resumed with result r:
\*   for await (const item of ...) { if (didResolve) break; yield item }
\*   if (didResolve) { return await returnValue }
LoopStepNoBreak(r, resolved) ==
  IF ~r.done THEN "yield"
  ELSE IF resolved THEN "returnNotifier" ELSE "returnUndefined"

LoopStep(r, resolved) ==
  IF r.done
    THEN IF resolved THEN "returnNotifier" ELSE "returnUndefined"
    ELSE IF resolved THEN "returnNotifier" ELSE "yield"

\* The continuation of the loop's await
RunLoop ==
  /\ jobs # <<>>
  /\ Head(jobs) = "loop"
  /\ LET step == LoopStep(seqResult, didResolve)
     IN CASE step = "yield" ->
               /\ out' = Append(out, seqResult.value)
               /\ pc' = "yield"
               /\ pending' = FALSE
               /\ jobs' = Tail(jobs)
               /\ UNCHANGED retVal
          [] step = "returnNotifier" ->
               \* returnValue is resolved already: the await continues in a job
               /\ pc' = "awaitReturn"
               /\ jobs' = Append(Tail(jobs), "return")
               /\ UNCHANGED <<out, pending, retVal>>
          [] OTHER ->
               /\ pc' = "done"
               /\ retVal' = [kind |-> "undefined", res |-> Undefined]
               /\ pending' = FALSE
               /\ jobs' = Tail(jobs)
               /\ UNCHANGED out
  /\ UNCHANGED <<didResolve, returnValue, notifier, seqLen, seqPos, seqPending,
                 seqResult, atNotify>>
  /\ UNCHANGED notTakeUntilVars

\* return await returnValue: the generator ends with the notifier's IteratorResult
RunReturn ==
  /\ jobs # <<>>
  /\ Head(jobs) = "return"
  /\ jobs' = Tail(jobs)
  /\ pc' = "done"
  /\ retVal' = [kind |-> "result", res |-> returnValue.res]
  /\ pending' = FALSE
  /\ UNCHANGED <<didResolve, returnValue, notifier, seqLen, seqPos, seqPending,
                 seqResult, out, atNotify>>
  /\ UNCHANGED notTakeUntilVars

NextTakeUntil ==
  \/ TakeUntilNext
  \/ \E r \in NotifierResults : NotifierSettles(r)
  \/ SeqSettles
  \/ RunThen
  \/ RunLoop
  \/ RunReturn

\* asyncIterator has any number of items up to MaxSeq
TakeUntilInit ==
  /\ InitSubject
  /\ \E n \in 0..MaxSeq : InitTakeUntil(n)
  /\ InitOperator("takeUntil", NoParams)

SpecTakeUntil == TakeUntilInit /\ [][NextTakeUntil]_vars

----------------------------------------------------------------------------
\* The operators over one upstream sequence.  As for takeUntil, the body of a
\* generator runs when the consumer calls next() and stops at each await and
\* at each yield; the body of an async function (fold, all, any, find) runs
\* from the call to its first await.  The continuation of the for await loop
\* is the job "loop" that SeqSettles queues.  A next() call made while another
\* is unsettled is queued by the generator and runs as if made after it, so
\* the consumer is modelled as calling next() when no call is unsettled.

\* for await (const item of asIterable(asyncIterator)): the cursor is created
\* when the loop is entered, and before each round next() is called and awaited
Pull ==
  /\ PullSeq
  /\ attached' = TRUE
  /\ pulls' = Append(pulls, "a")

\* yield x: the consumer's call settles with {done: false, value: x}
Yield(x) ==
  /\ out' = Append(out, x)
  /\ pc' = "yield"
  /\ pending' = FALSE

\* return v, or the end of the body: the call settles with the value
Return(type, v) ==
  /\ pc' = "done"
  /\ returned' = Returned(type, v)
  /\ pending' = FALSE

----------------------------------------------------------------------------
\* take(count, asyncIterator)

notTakeVars == <<notOperatorVars, operator, throttleVars, foldVars, fn, zipVars>>

TakeBreakLate(i, n) == i > n

\* if (index >= count) break
TakeBreak(i, n) == i >= n

\* The consumer calls next().  The first call runs the body from its start:
\* if (count <= 0) return; let index = 0; and the loop pulls the first item.  A
\* call on the generator suspended at `yield item` runs index++ and the test
\* of the break, and the loop pulls the next item if it goes on.
TakeNext ==
  /\ operator = "take"
  /\ ~pending
  /\ pc \in {"start", "yield"}
  /\ IF pc = "start"
       THEN IF count <= 0
              THEN /\ Return("undefined", 0)
                   /\ UNCHANGED <<index, seqPending, attached, pulls>>
              ELSE /\ index' = 0
                   /\ pending' = TRUE
                   /\ Pull
                   /\ UNCHANGED returned
       ELSE /\ index' = index + 1
            /\ IF TakeBreak(index + 1, count)
                 THEN /\ Return("undefined", 0)
                      /\ UNCHANGED <<seqPending, attached, pulls>>
                 ELSE /\ pending' = TRUE
                      /\ Pull
                      /\ UNCHANGED returned
  /\ UNCHANGED <<count, seqLen, seqPos, seqResult, jobs, out>>
  /\ UNCHANGED notTakeVars

\* The continuation of the loop's await: the item is yielded, or the loop and
\* the body end when asyncIterator is done
TakeLoop ==
  /\ operator = "take"
  /\ jobs # <<>>
  /\ Head(jobs) = "loop"
  /\ jobs' = Tail(jobs)
  /\ IF seqResult.done
       THEN Return("undefined", 0) /\ UNCHANGED out
       ELSE Yield(seqResult.value) /\ UNCHANGED returned
  /\ UNCHANGED <<takeVars, seqLen, seqPos, seqPending, seqResult, attached, pulls>>
  /\ UNCHANGED notTakeVars

NextTake ==
  \/ TakeNext
  \/ SeqSettles
  \/ TakeLoop

\* The values of count
Counts == (0 - 1)..(MaxSeq + 1)

TakeInit ==
  /\ InitSubject
  /\ \E n \in 0..MaxSeq : InitTakeUntil(n)
  /\ \E k \in Counts : InitOperator("take", [NoParams EXCEPT !.count = k])

SpecTake == TakeInit /\ [][NextTake]_vars

----------------------------------------------------------------------------
\* throttle(duration, asyncIterator).  Date.now() is read when the loop body
\* runs for an item; the readings are any non-decreasing numbers from 0 on.

notThrottleVars == <<notOperatorVars, operator, takeVars, foldVars, fn, zipVars>>

\* if (lastYield === 0 || now - lastYield >= duration)
ThrottleOpen(ly, now, d) == ly = 0 \/ now - ly >= d

ThrottleFlushNever(h) == FALSE

\* if (hasItem) after the loop
ThrottleFlush(h) == h

\* The consumer calls next().  The first call runs the body from its start
\* (the locals have their initial values) and the loop pulls the first item; a
\* call on the generator suspended at `yield item` pulls the next item; a call
\* on the generator suspended at `yield lastItem!` ends the body.
ThrottleNext ==
  /\ operator = "throttle"
  /\ ~pending
  /\ pc \in {"start", "yield", "flush"}
  /\ IF pc = "flush"
       THEN /\ Return("undefined", 0)
            /\ UNCHANGED <<seqPending, attached, pulls>>
       ELSE /\ pending' = TRUE
            /\ Pull
            /\ UNCHANGED returned
  /\ UNCHANGED <<throttleVars, seqLen, seqPos, seqResult, jobs, out>>
  /\ UNCHANGED notThrottleVars

\* The continuation of the loop's await.  For an item: const now = Date.now(),
\* then the item is yielded and the window restarts, or the item is remembered
\* and the loop pulls the next one.  When asyncIterator is done: the item
\* remembered is yielded, or the body ends.
HasItemKept(h) == h

\* hasItem = false, in the branch that yields the item
HasItemAfterYield(h) == FALSE

ThrottleLoop ==
  /\ operator = "throttle"
  /\ jobs # <<>>
  /\ Head(jobs) = "loop"
  /\ jobs' = Tail(jobs)
  /\ IF seqResult.done
       THEN /\ IF ThrottleFlush(hasItem)
                 THEN /\ out' = Append(out, lastItem)
                      /\ pc' = "flush"
                      /\ pending' = FALSE
                      /\ UNCHANGED returned
                 ELSE /\ Return("undefined", 0)
                      /\ UNCHANGED out
            /\ UNCHANGED <<throttleVars, seqPending, attached, pulls>>
       ELSE \E now \in clock..MaxClock :
              /\ clock' = now
              /\ IF ThrottleOpen(lastYield, now, duration)
                   THEN /\ hasItem' = HasItemAfterYield(hasItem)
                        /\ lastItem' = 0
                        /\ lastYield' = now
                        /\ Yield(seqResult.value)
                        /\ received' = Append(received,
                             [item |-> seqResult.value, now |-> now, yielded |-> TRUE])
                        /\ UNCHANGED <<seqPending, attached, pulls>>
                   ELSE /\ lastItem' = seqResult.value
                        /\ hasItem' = TRUE
                        /\ received' = Append(received,
                             [item |-> seqResult.value, now |-> now, yielded |-> FALSE])
                        /\ Pull
                        /\ UNCHANGED <<lastYield, out, pending>>
              /\ UNCHANGED <<duration, returned>>
  /\ UNCHANGED <<seqLen, seqPos, seqResult>>
  /\ UNCHANGED notThrottleVars

NextThrottle ==
  \/ ThrottleNext
  \/ SeqSettles
  \/ ThrottleLoop

\* The values of duration
Durations == (0 - 1)..MaxDuration

ThrottleInit ==
  /\ InitSubject
  /\ \E n \in 0..MaxSeq : InitTakeUntil(n)
  /\ \E d \in Durations : InitOperator("throttle", [NoParams EXCEPT !.duration = d])

SpecThrottle == ThrottleInit /\ [][NextThrottle]_vars

----------------------------------------------------------------------------
\* zip(a, b).  a is the upstream sequence of the for await loop (its items are
\* 1, 2, ...); b is advanced with iteratorB.next() (its items are -1, -2, ...).
\* pc is "awaitB" at the await in the loop and "awaitAfter" at the one after it.

notZipVars == <<notOperatorVars, operator, takeVars, throttleVars, foldVars, fn>>

\* await iteratorB.next(): next() is called and awaited
PullB ==
  /\ bPending' = TRUE
  /\ pulls' = Append(pulls, "b")

\* The consumer calls next(): the loop pulls the first, or the next, item of a
\* (iteratorB has been created when the body starts)
ZipNext ==
  /\ operator = "zip"
  /\ ~pending
  /\ pc \in {"start", "yield"}
  /\ pending' = TRUE
  /\ Pull
  /\ UNCHANGED <<zipVars, seqLen, seqPos, seqResult, jobs, out, returned>>
  /\ UNCHANGED notZipVars

\* iteratorB.next() settles, with the next item of b or with completion; the
\* continuation of the await becomes a job
BSettles ==
  /\ bPending
  /\ bPending' = FALSE
  /\ IF bPos < bLen
       THEN bPos' = bPos + 1 /\ bResult' = Result(FALSE, 0 - (bPos + 1))
       ELSE bPos' = bPos /\ bResult' = Undefined
  /\ jobs' = Append(jobs, "b")
  /\ UNCHANGED <<bLen, pc, seqLen, seqPos, seqPending, seqResult, pending, out,
                 attached, pulls, returned>>
  /\ UNCHANGED notZipVars

\* The continuation of the loop's await: with an item of a the loop body calls
\* iteratorB.next(); when a is done the statement after the loop does
AwaitOfBInLoop(done) == "awaitB"

\* Where iteratorB.next() is awaited: in the loop, for an item of a, or after
\* the loop, when a is done
AwaitOfB(done) == IF done THEN "awaitAfter" ELSE "awaitB"

ZipLoop ==
  /\ operator = "zip"
  /\ jobs # <<>>
  /\ Head(jobs) = "loop"
  /\ jobs' = Tail(jobs)
  /\ pc' = AwaitOfB(seqResult.done)
  /\ PullB
  /\ UNCHANGED <<bLen, bPos, bResult, seqLen, seqPos, seqPending, seqResult,
                 pending, out, attached, returned>>
  /\ UNCHANGED notZipVars

ReturnWhenBDoneShorter == "b"

\* if (done) return a
ReturnWhenBDone == "a"

ReturnAfterLoopFirstChecked(done) == IF ~done THEN "b" ELSE "a"

\* if (!done) return b, and the end of the body
ReturnAfterLoop(done) == IF ~done THEN "b" ELSE "undefined"

PairReversed(itemA, itemB) == <<itemB, itemA>>

\* [await itemA, await itemB]
Pair(itemA, itemB) == <<itemA, itemB>>

\* The continuation of the await in the loop: return a when b is done, or
\* yield the pair
ZipPair ==
  /\ operator = "zip"
  /\ jobs # <<>>
  /\ Head(jobs) = "b"
  /\ pc = "awaitB"
  /\ jobs' = Tail(jobs)
  /\ IF bResult.done
       THEN Return(ReturnWhenBDone, 0) /\ UNCHANGED out
       ELSE Yield(Pair(seqResult.value, bResult.value)) /\ UNCHANGED returned
  /\ UNCHANGED <<zipVars, seqLen, seqPos, seqPending, seqResult, attached, pulls>>
  /\ UNCHANGED notZipVars

\* The continuation of the await after the loop
ZipEnd ==
  /\ operator = "zip"
  /\ jobs # <<>>
  /\ Head(jobs) = "b"
  /\ pc = "awaitAfter"
  /\ jobs' = Tail(jobs)
  /\ Return(ReturnAfterLoop(bResult.done), 0)
  /\ UNCHANGED <<zipVars, seqLen, seqPos, seqPending, seqResult, out, attached,
                 pulls>>
  /\ UNCHANGED notZipVars

NextZip ==
  \/ ZipNext
  \/ SeqSettles
  \/ BSettles
  \/ ZipLoop
  \/ ZipPair
  \/ ZipEnd

\* a and b have any number of items up to MaxSeq
ZipInit ==
  /\ InitSubject
  /\ \E m \in 0..MaxSeq : InitTakeUntil(m)
  /\ \E n \in 0..MaxSeq : InitOperator("zip", [NoParams EXCEPT !.bLen = n])

SpecZip == ZipInit /\ [][NextZip]_vars

----------------------------------------------------------------------------
\* fold(initialValue, combine, asyncIterator) and scan(...).  combine is one
\* of two functions: (sum, item) => sum + item, and one that is neither
\* commutative nor associative, (digits, item) => 10 * digits + item.

Combines == {"sum", "digits"}

Combine(f, previousItem, item) ==
  IF f = "sum" THEN previousItem + item ELSE 10 * previousItem + item

InitialValues == 0..MaxInitial

notFoldVars == <<notOperatorVars, operator, takeVars, throttleVars, fn, zipVars>>

FoldStepSwapped(v, item) == Combine(combine, item, v)

\* value = combine(value, await item)
FoldStep(v, item) == Combine(combine, v, item)

\* fold is called: the body runs from let value = initialValue to the loop's
\* first await, and the caller holds a pending promise
FoldCall ==
  /\ operator = "fold"
  /\ pc = "start"
  /\ pending' = TRUE
  /\ foldValue' = initialValue
  /\ Pull
  /\ UNCHANGED <<initialValue, combine, seqLen, seqPos, seqResult, jobs, out, returned>>
  /\ UNCHANGED notFoldVars

\* The continuation of the loop's await: the item is combined and the next is
\* pulled, or, when asyncIterator is done, return value
FoldLoop ==
  /\ operator = "fold"
  /\ jobs # <<>>
  /\ Head(jobs) = "loop"
  /\ jobs' = Tail(jobs)
  /\ IF seqResult.done
       THEN /\ Return("number", foldValue)
            /\ UNCHANGED <<foldValue, seqPending, attached, pulls>>
       ELSE /\ foldValue' = FoldStep(foldValue, seqResult.value)
            /\ Pull
            /\ UNCHANGED <<pending, returned>>
  /\ UNCHANGED <<initialValue, combine, seqLen, seqPos, seqResult, out>>
  /\ UNCHANGED notFoldVars

NextFold ==
  \/ FoldCall
  \/ SeqSettles
  \/ FoldLoop

FoldInit ==
  /\ InitSubject
  /\ \E n \in 0..MaxSeq : InitTakeUntil(n)
  /\ \E f \in Combines, v \in InitialValues :
       InitOperator("fold", [NoParams EXCEPT !.combine = f, !.initialValue = v])

SpecFold == FoldInit /\ [][NextFold]_vars

\* The consumer calls next() on scan: the first call runs the body from
\* let value = initialValue, and the loop pulls the first, or the next, item
ScanNext ==
  /\ operator = "scan"
  /\ ~pending
  /\ pc \in {"start", "yield"}
  /\ pending' = TRUE
  /\ foldValue' = IF pc = "start" THEN initialValue ELSE foldValue
  /\ Pull
  /\ UNCHANGED <<initialValue, combine, seqLen, seqPos, seqResult, jobs, out, returned>>
  /\ UNCHANGED notFoldVars

\* value = combine(value, await item)
ScanStep(v, item) == Combine(combine, v, item)

ScanReturnNothing(v) == Returned("undefined", 0)

\* return value
ScanReturn(v) == Returned("number", v)

\* The continuation of the loop's await: the item is combined and the new
\* value yielded, or, when asyncIterator is done, return value
ScanLoop ==
  /\ operator = "scan"
  /\ jobs # <<>>
  /\ Head(jobs) = "loop"
  /\ jobs' = Tail(jobs)
  /\ IF seqResult.done
       THEN /\ pc' = "done"
            /\ returned' = ScanReturn(foldValue)
            /\ pending' = FALSE
            /\ UNCHANGED <<foldValue, out>>
       ELSE /\ foldValue' = ScanStep(foldValue, seqResult.value)
            /\ Yield(foldValue')
            /\ UNCHANGED returned
  /\ UNCHANGED <<initialValue, combine, seqLen, seqPos, seqPending, seqResult,
                 attached, pulls>>
  /\ UNCHANGED notFoldVars

NextScan ==
  \/ ScanNext
  \/ SeqSettles
  \/ ScanLoop

ScanInit ==
  /\ InitSubject
  /\ \E n \in 0..MaxSeq : InitTakeUntil(n)
  /\ \E f \in Combines, v \in InitialValues :
       InitOperator("scan", [NoParams EXCEPT !.combine = f, !.initialValue = v])

SpecScan == ScanInit /\ [][NextScan]_vars

----------------------------------------------------------------------------
\* all(fn, asyncIterator), any(fn, asyncIterator) and find(fn, asyncIterator).
\* fn is any predicate on the items: the set of the items it returns true for.

notSearchVars == <<notOperatorVars, operator, takeVars, throttleVars, foldVars, zipVars>>

\* await fn(item)
Fn(item) == item \in fn

Predicates == SUBSET (1..MaxSeq)

Bool(b) == IF b THEN 1 ELSE 0

\* The operator is called: the body runs to the loop's first await, and the
\* caller holds a pending promise
Call ==
  /\ pc = "start"
  /\ pending' = TRUE
  /\ Pull
  /\ UNCHANGED <<fn, seqLen, seqPos, seqResult, jobs, out, returned>>
  /\ UNCHANGED notSearchVars

AllCall == operator = "all" /\ Call

AnyCall == operator = "any" /\ Call

FindCall == operator = "find" /\ Call

\* The loop of all, any and find, resumed with an item or with done: the
\* promise is resolved with result when asyncIterator is done or stop holds
\* for the item, and the next item is pulled otherwise
Loop(stop, result) ==
  /\ jobs # <<>>
  /\ Head(jobs) = "loop"
  /\ jobs' = Tail(jobs)
  /\ IF seqResult.done \/ stop
       THEN /\ pc' = "done"
            /\ returned' = result
            /\ pending' = FALSE
            /\ UNCHANGED <<seqPending, attached, pulls>>
       ELSE /\ Pull
            /\ UNCHANGED <<pending, returned>>
  /\ UNCHANGED <<fn, seqLen, seqPos, seqResult, out>>
  /\ UNCHANGED notSearchVars

AllFailsNever(item) == FALSE

\* if (!(await fn(item))) return false
AllFails(item) == ~Fn(item)

\* The continuation of the loop's await in all: return false at an item that
\* fails fn, return true after the loop
AllLoop ==
  /\ operator = "all"
  /\ Loop(~seqResult.done /\ AllFails(seqResult.value),
          Returned("boolean", Bool(seqResult.done)))

\* if (await fn(item)) return true
AnyPasses(item) == Fn(item)

\* The continuation of the loop's await in any: return true at an item that
\* passes fn, return false after the loop
AnyLoop ==
  /\ operator = "any"
  /\ Loop(~seqResult.done /\ AnyPasses(seqResult.value),
          Returned("boolean", Bool(~seqResult.done)))

NextAllAny ==
  \/ AllCall
  \/ AnyCall
  \/ SeqSettles
  \/ AllLoop
  \/ AnyLoop

AllAnyInit ==
  /\ InitSubject
  /\ \E n \in 0..MaxSeq : InitTakeUntil(n)
  /\ \E op \in {"all", "any"}, p \in Predicates :
       InitOperator(op, [NoParams EXCEPT !.fn = p])

SpecAllAny == AllAnyInit /\ [][NextAllAny]_vars

FindReturnsNothing(item) == Returned("undefined", 0)

\* return item
FindReturns(item) == Returned("number", item)

\* The continuation of the loop's await in find: return the item that passes
\* fn; the body ends without a return statement after the loop
FindLoop ==
  /\ operator = "find"
  /\ IF seqResult.done
       THEN Loop(FALSE, Returned("undefined", 0))
       ELSE Loop(Fn(seqResult.value), FindReturns(seqResult.value))

NextFind ==
  \/ FindCall
  \/ SeqSettles
  \/ FindLoop

FindInit ==
  /\ InitSubject
  /\ \E n \in 0..MaxSeq : InitTakeUntil(n)
  /\ \E p \in Predicates : InitOperator("find", [NoParams EXCEPT !.fn = p])

SpecFind == FindInit /\ [][NextFind]_vars

----------------------------------------------------------------------------
\* collect(fn, iterator, {merge}) and collectRecord(fn, iterator, {merge}).
\* fn returns [key, value] for an item: the key is any of Keys, the value of
\* the item i is the array [i].  merge, when given, concatenates the current
\* and the new value, so the value under a key tells which values were merged
\* and in what order.  collect keeps the keys in a Map; collectRecord keeps
\* them in an object created by {}, which inherits the properties of
\* Object.prototype: toString is one of them, and its value, a function, is
\* written [0].

Keys == {"x", "y", "toString"}

Merges == {"undefined", "concat"}

Merge(currentValue, newValue, key) == currentValue \o newValue

ObjectPrototype == [key \in {"toString"} |-> <<0>>]

notCollectVars ==
  <<subjectVars, takeUntilLocals, operator, takeVars, throttleVars, foldVars, fn,
    zipVars, curryVars, derivedVars>>

\* collection.has(key) of a Map: the key was set
MapHas(m, key) == key \in DOMAIN m

\* key in record: the key is a property of the object or of its prototype
KeyInRecord(r, key) == key \in DOMAIN r \/ key \in DOMAIN ObjectPrototype

\* collection.has(key) in collect, key in record in collectRecord
Has(key) ==
  IF operator = "collect" THEN MapHas(collection, key)
  ELSE KeyInRecord(collection, key)

\* collection.get(key)!, and record[key], which reads an inherited property
\* when the object has none of its own
Get(key) ==
  IF key \in DOMAIN collection THEN collection[key] ELSE ObjectPrototype[key]

\* collection.set(key, v), and record[key] = v
Set(key, v) ==
  [k \in DOMAIN collection \cup {key} |-> IF k = key THEN v ELSE collection[k]]

\* collect or collectRecord is called: the body runs from the creation of the
\* collection to the loop's first await, and the caller holds a pending promise
CollectCall ==
  /\ operator \in {"collect", "collectRecord"}
  /\ pc = "start"
  /\ pending' = TRUE
  /\ Pull
  /\ UNCHANGED <<collectVars, seqLen, seqPos, seqResult, jobs, out, returned>>
  /\ UNCHANGED notCollectVars

\* The continuation of the loop's await: the value of the item is set under
\* its key, merged with the value found there when merge is given and the key
\* is found, and the next item is pulled; or, when iterator is done, return
CollectLoop ==
  /\ operator \in {"collect", "collectRecord"}
  /\ jobs # <<>>
  /\ Head(jobs) = "loop"
  /\ jobs' = Tail(jobs)
  /\ IF seqResult.done
       THEN /\ Return("object", 0)
            /\ UNCHANGED <<collection, mergeCalls, seqPending, attached, pulls>>
       ELSE LET item == seqResult.value
                key == keys[item]
                v == <<item>>
            IN /\ IF merge # "undefined" /\ Has(key)
                    THEN /\ collection' = Set(key, Merge(Get(key), v, key))
                         /\ mergeCalls' =
                              Append(mergeCalls,
                                     [currentValue |-> Get(key), item |-> item,
                                      key |-> key])
                    ELSE /\ collection' = Set(key, v)
                         /\ UNCHANGED mergeCalls
               /\ Pull
               /\ UNCHANGED <<pending, returned>>
  /\ UNCHANGED <<merge, keys, seqLen, seqPos, seqResult, out>>
  /\ UNCHANGED notCollectVars

NextCollect ==
  \/ CollectCall
  \/ SeqSettles
  \/ CollectLoop

CollectInit ==
  /\ InitSubject
  /\ \E n \in 0..MaxSeq : InitTakeUntil(n)
  /\ \E op \in {"collect", "collectRecord"}, m \in Merges,
        f \in [1..MaxSeq -> Keys] :
       InitOperator(op, [NoParams EXCEPT !.merge = m, !.keys = f])

SpecCollect == CollectInit /\ [][NextCollect]_vars

----------------------------------------------------------------------------
\* The wrappers of utils.ts that give the operators their call shapes: curry2
\* (map, filter, zip, throttle, all, any, find, take, takeUntil, ...),
\* autoCurry (fold, scan) and curry2WithOptions (collect, collectRecord).  What
\* a call returns is either the call of the wrapped function, with its three
\* arguments (one that is not passed is undefined), or a function that holds
\* the arguments given so far.

Arg(args, i) == IF i <= Len(args) THEN args[i] ELSE JsUndefined

\* func(a, b), func(a, b, options), fn.apply(this, args)
Func(args) ==
  [kind |-> "call", form |-> "func",
   args |-> <<Arg(args, 1), Arg(args, 2), Arg(args, 3)>>]

\* A function returned by a wrapper: which one, and the arguments it holds
Function(form, args) == [kind |-> "function", form |-> form, args |-> args]

\* fold.length and scan.length
FnLength == 3

IsIterableOnly(v) ==
  /\ v.kind \notin {"null", "undefined"}
  /\ v.iterator = "function" \/ v.asyncIterator = "function"

IsIterableOrIterator(v) ==
  /\ v.kind \notin {"null", "undefined"}
  /\ \/ v.iterator = "function"
     \/ v.asyncIterator = "function"
     \/ v.next = "function"

curry2(a, b) ==
  IF b = JsUndefined THEN Function("(b) => func(a, b)", <<a>>)
  ELSE Func(<<a, b>>)

BindNoOptions(a, options) ==
  Function("(b) => func(a, b, options)", <<a, JsUndefined>>)

\* options = b; return (b) => func(a, b, options)
BindOptions(a, options) == Function("(b) => func(a, b, options)", <<a, options>>)

curry2WithOptions(a, b, options) ==
  IF options = JsUndefined
    THEN IF b = JsUndefined
           THEN Function("(b, options) => func(a, b, options)", <<a>>)
           ELSE IF IsIterableOrIterator(b) THEN Func(<<a, b>>)
                ELSE BindOptions(a, b)
    ELSE Func(<<a, b, options>>)

\* autoCurry.apply(this, [fn, ...args]): args are the arguments after fn
autoCurry(args) ==
  IF FnLength <= 1 THEN Function("fn", <<>>)
  ELSE IF Len(args) >= FnLength THEN Func(args)
  ELSE Function("autoCurry", args)

\* The call f(...more) of a function that a wrapper returned
Apply(f, more) ==
  CASE f.form = "(b) => func(a, b)" -> Func(<<f.args[1], Arg(more, 1)>>)
    [] f.form = "(b, options) => func(a, b, options)" ->
         Func(<<f.args[1], Arg(more, 1), Arg(more, 2)>>)
    [] f.form = "(b) => func(a, b, options)" ->
         Func(<<f.args[1], Arg(more, 1), f.args[2]>>)
    [] f.form = "autoCurry" -> autoCurry(f.args \o more)
    [] f.form = "fn" -> Func(more)

\* The first arguments of the calls: a function, and a number
TheFn == JsValue("function", "absent", "absent", "absent", "absent")
TheInit == JsValue("number", "absent", "absent", "absent", "absent")

\* The values a call is given as x: undefined, null, and a value with any
\* combination of the three properties; as the sequence: an iterable, an
\* async iterable, an iterator; as the options: undefined, null, {} and
\* {merge}
Objects == {JsValue("object", n, i, ai, "absent") : n \in Props, i \in Props, ai \in Props}
WithMerge == JsValue("object", "absent", "absent", "absent", "function")
Values == Objects \cup {JsUndefined, JsNull, WithMerge}

SequenceValues ==
  {JsValue("object", "absent", "function", "absent", "absent"),
   JsValue("object", "absent", "absent", "function", "absent"),
   JsValue("object", "function", "absent", "absent", "absent")}

OptionsValues ==
  {JsUndefined, JsNull, JsValue("object", "absent", "absent", "absent", "absent"),
   WithMerge}

\* What the call of a shape returns, for the arguments of the run
ShapeResult(shape) ==
  CASE shape = "op(a, b)" -> curry2(TheFn, argSeq)
    [] shape = "op(a)(b)" -> Apply(curry2(TheFn, JsUndefined), <<argSeq>>)
    [] shape = "op(init, combine, seq)" ->
         Apply(autoCurry(<<>>), <<TheInit, TheFn, argSeq>>)
    [] shape = "op(init, combine)(seq)" ->
         Apply(Apply(autoCurry(<<>>), <<TheInit, TheFn>>), <<argSeq>>)
    [] shape = "op(fn, x)" -> curry2WithOptions(TheFn, argX, JsUndefined)
    [] shape = "op(fn, seq, opts)" -> curry2WithOptions(TheFn, argSeq, argOptions)
    [] shape = "op(fn)(seq, opts)" ->
         Apply(curry2WithOptions(TheFn, JsUndefined, JsUndefined),
               <<argSeq, argOptions>>)
    [] shape = "op(fn, opts)(seq)" ->
         Apply(curry2WithOptions(TheFn, argOptions, JsUndefined), <<argSeq>>)

\* A call of one of the shapes is made
CallShape(shape) ==
  /\ operator = "curry"
  /\ applied[shape] = NotCalled
  /\ applied' = [applied EXCEPT ![shape] = ShapeResult(shape)]
  /\ UNCHANGED <<argX, argSeq, argOptions>>
  /\ UNCHANGED <<subjectVars, takeUntilVars, operator, takeVars, throttleVars,
                 foldVars, fn, zipVars, collectVars, derivedVars, attached, pulls,
                 returned>>

NextCurry == \E shape \in Shapes : CallShape(shape)

CurryInit ==
  /\ InitSubject
  /\ InitTakeUntil(0)
  /\ \E v \in Values, s \in SequenceValues, o \in OptionsValues :
       InitOperator("curry", [NoParams EXCEPT !.x = v, !.seq = s, !.options = o])

SpecCurry == CurryInit /\ [][NextCurry]_vars

----------------------------------------------------------------------------
\* map(fn, subject): an async generator over a Subject, among the Subject's
\* other consumers.  The operator call runs nothing of the body.  A next()
\* call on the generator is queued; when the generator is suspended, at its
\* start or at a yield, the call resumes it at once: the first call enters the
\* for await loop, which creates the Subject cursor and calls next() on it,
\* and a later call goes round the loop and calls next() on the cursor.  A
\* call made while the body is between a resumption and its next yield stays
\* queued, and the yield that settles the call before it resumes the body for
\* it.  The continuation of the loop's await runs once the cursor's call has
\* settled.  fn is item => 10 * item.  The Subject is given values and its
\* completion.

MapFn(item) == 10 * item

notDerivedVars ==
  <<takeUntilLocals, seqLen, seqPos, seqPending, seqResult, jobs, pending,
    operator, takeVars, throttleVars, foldVars, fn, zipVars, collectVars,
    curryVars, pulls, returned>>

GeneratorSuspendedAlways(p) == TRUE

\* The generator is suspended, not executing: a next() call resumes it
GeneratorSuspended(p) == p \in {"start", "yield"}

\* asIterable(asyncIterator)[Symbol.asyncIterator]() and the first next() of
\* the for await loop, on the Subject
EnterLoop ==
  LET c == created + 1
  IN /\ created < MaxConsumers
     /\ cursor' = c
     /\ attached' = TRUE
     /\ created' = c
     /\ _subscribers' = Append(_subscribers, c)
     /\ items' = [items EXCEPT ![c] = NewSubscriberItems]
     /\ attachAt' = [attachAt EXCEPT ![c] = ops]
     /\ calls' = [calls EXCEPT ![c] = <<[st |-> "awaiting", on |-> 0, res |-> NoItem]>>]
     /\ micro' = Append(micro, [job |-> "cont", c |-> c, i |-> 1])
     /\ UNCHANGED <<_isDisposed, listeners, lastNext, shifted, pushed, ops, lastOp,
                    doneCalled, throwCalled, overlapped>>

\* The loop calls next() on its cursor for another round
NextRound ==
  /\ AdvanceCursor(cursor)
  /\ UNCHANGED <<cursor, attached>>

\* The consumer calls next() on the generator
DerivedAdvance ==
  /\ operator = "map"
  /\ issued < MaxAdvances
  /\ TotalCalls + Len(requests) < MaxCalls
  /\ issued' = issued + 1
  /\ atFirstAdvance' = IF issued = 0 THEN ops ELSE atFirstAdvance
  /\ IF pc = "done"
       THEN /\ settledAs' =
                 Append(settledAs,
                        [advance |-> issued + 1, res |-> DoneItem, queued |-> 1])
            /\ UNCHANGED <<requests, pc, cursor, attached, subjectVars>>
       ELSE /\ requests' = Append(requests, issued + 1)
            /\ UNCHANGED settledAs
            /\ IF GeneratorSuspended(pc)
                 THEN /\ pc' = "awaitSeq"
                      /\ IF cursor = 0 THEN EnterLoop ELSE NextRound
                 ELSE UNCHANGED <<pc, cursor, attached, subjectVars>>
  /\ UNCHANGED out
  /\ UNCHANGED notDerivedVars

\* The continuation of the loop's await: yield await fn(item) settles the
\* oldest call, and a call queued behind it resumes the body; a completion
\* ends the generator, an error is thrown out of it, and the calls queued
\* behind the oldest settle as done
DerivedLoop ==
  /\ operator = "map"
  /\ pc = "awaitSeq"
  /\ requests # <<>>
  /\ LET call == calls[cursor][Len(calls[cursor])]
     IN /\ call.st = "settled"
        /\ IF IsTerminal(call.res)
             THEN /\ pc' = "done"
                  /\ settledAs' =
                       settledAs \o
                         [j \in 1..Len(requests) |->
                            [advance |-> requests[j],
                             res |-> IF j = 1 THEN call.res ELSE DoneItem,
                             queued |-> Len(requests)]]
                  /\ requests' = <<>>
                  /\ UNCHANGED <<out, subjectVars>>
             ELSE /\ out' = Append(out, MapFn(call.res.value))
                  /\ settledAs' =
                       Append(settledAs,
                              [advance |-> Head(requests),
                               res |-> ValueItem(MapFn(call.res.value)),
                               queued |-> Len(requests)])
                  /\ requests' = Tail(requests)
                  /\ IF Tail(requests) # <<>>
                       THEN /\ pc' = "awaitSeq"
                            /\ AdvanceCursor(cursor)
                       ELSE /\ pc' = "yield"
                            /\ UNCHANGED subjectVars
  /\ UNCHANGED <<cursor, issued, atFirstAdvance, attached>>
  /\ UNCHANGED notDerivedVars

NextDerived ==
  \/ DerivedAdvance
  \/ DerivedLoop
  \/ Attach
  \/ \E c \in Consumers : c # cursor /\ Advance(c)
  \/ SubjectNext
  \/ SubjectDone
  \/ RunCont
  \/ RunSettle

DerivedInit == InitSubject /\ InitTakeUntil(0) /\ InitOperator("map", NoParams)

SpecDerived == DerivedInit /\ [][NextDerived]_vars

----------------------------------------------------------------------------
\* Every item ever enqueued for consumer c, in order
Enq(c) == shifted[c] \o items[c]

ValueItems(vs) == [k \in 1..Len(vs) |-> ValueItem(vs[k])]

Range(s) == {s[k] : k \in 1..Len(s)}

\* The values accepted by Subject.next since cursor c was created
PushedSince(c) == SelectSeq(pushed, LAMBDA v : v > attachAt[c])

\* The settled calls of cursor c got the items of its queue in call order: call
\* i settled after call i-1 and with the i-th item.  (A call made after the
\* error was delivered has no item left: it is rejected with that error again,
\* by `await lastNext`.)
ServedInQueueOrder(c) ==
  \A i \in 1..Len(calls[c]) :
    calls[c][i].st = "settled" =>
      /\ \A j \in 1..(i - 1) : calls[c][j].st = "settled"
      /\ IF i <= Len(Enq(c))
           THEN calls[c][i].res = Enq(c)[i]
           ELSE /\ Enq(c) # <<>>
                /\ calls[c][i].res.isError
                /\ calls[c][i].res = Enq(c)[Len(Enq(c))]

\* C1: on every cursor, however its next() calls overlap with each other, with
\* the jobs and with the calls of next(v) and done(), the i-th call settles with
\* the i-th item enqueued for the consumer and not before call i-1 settled.
C1_OverlappingCallsServedInOrder ==
  ~throwCalled => \A c \in Consumers : ServedInQueueOrder(c)

\* C2: once next(v1..vk) and then done() have been called, a consumer attached
\* before the first producer call whose own next() calls never overlapped has
\* been enqueued exactly v1..vk and one completion, and its settled calls got
\* them in that order, whatever the other consumers did.
C2_SequentialConsumerReceivesAll ==
  \A c \in 1..created :
    (attachAt[c] = 0 /\ ~overlapped[c] /\ ~throwCalled
       /\ lastOp.op = "done" /\ ~lastOp.afterDone) =>
      /\ Enq(c) = ValueItems(pushed) \o <<DoneItem>>
      /\ \A i \in 1..Len(calls[c]) :
           calls[c][i].st = "settled" =>
             i <= Len(Enq(c)) /\ calls[c][i].res = Enq(c)[i]

\* C3: Subject.next(v) on a Subject on which done() has not been called returns
\* normally, and every attached consumer has been enqueued every value pushed
\* since it attached, whatever advances are pending on any cursor.
C3_NextNeverFailsNorSkips ==
  /\ (lastOp.op = "next" /\ ~lastOp.afterDone) => lastOp.fault = "none"
  /\ (~doneCalled /\ ~throwCalled) =>
       \A c \in Range(_subscribers) : Enq(c) = ValueItems(PushedSince(c))

\* On runs in which no cursor ever had overlapping next() calls, the statements
\* of C1, C2, C3, C6 and C8 hold: they fail only through the listeners that
\* overlapping calls register.
NoOverlap == \A c \in Consumers : ~overlapped[c]

HoldsWithoutOverlap ==
  NoOverlap =>
    /\ C1_OverlappingCallsServedInOrder
    /\ C2_SequentialConsumerReceivesAll
    /\ C3_NextNeverFailsNorSkips
    /\ lastOp.afterDone => lastOp.fault = "disposed"
    /\ (lastOp.op = "throw" /\ lastOp.fault # "disposed") =>
         \A c \in Range(_subscribers) : attachAt[c] >= ops
    /\ \A c \in Consumers : Len(listeners[c]) <= 1

\* C4: a consumer is never enqueued a value pushed before it attached, its
\* values are in push order, and after attach and push operations alone its
\* queue holds exactly the values pushed since it attached.
C4_QueueHoldsPushesSinceAttach ==
  \A c \in 1..created :
    /\ \A k \in 1..Len(Enq(c)) :
         ~IsTerminal(Enq(c)[k]) =>
           /\ Enq(c)[k].value > attachAt[c]
           /\ Enq(c)[k].value \in Range(pushed)
           /\ \A j \in 1..(k - 1) : Enq(c)[j].value < Enq(c)[k].value
    /\ (TotalCalls = 0 /\ ~doneCalled /\ ~throwCalled) =>
         items[c] = ValueItems(PushedSince(c))

C4_Witness ==
  /\ created = 2 /\ TotalCalls = 0 /\ ~doneCalled /\ ~throwCalled
  /\ attachAt[2] > 0
  /\ Len(items[2]) >= 1
  /\ Len(items[1]) > Len(items[2])

\* C5: the Subject closes on its first terminal broadcast: a throw() or done()
\* made after an earlier throw() or done() faults with the disposed fault, and
\* every producer call made after a throw() does.
C5_ClosedAfterFirstTerminal ==
  /\ (lastOp.op \in {"throw", "done"} /\ (lastOp.afterDone \/ lastOp.afterThrow)) =>
       lastOp.fault = "disposed"
  /\ (lastOp.op # "none" /\ lastOp.afterThrow) => lastOp.fault = "disposed"

\* C6: every producer call made after done() has been called throws the
\* disposed fault and leaves every queue, the set of attached consumers and the
\* disposed flag as they were.
C6_CallAfterDoneFaultsAndChangesNothing ==
  [][(doneCalled /\ ops' # ops) =>
       (lastOp'.fault = "disposed" /\ UNCHANGED <<items, _subscribers, _isDisposed>>)]_vars

C8_ThrowDeliversInOrderAndDetachesAll ==
  /\ (lastOp.op = "throw" /\ lastOp.fault # "disposed") =>
       \A c \in Range(_subscribers) : attachAt[c] >= ops
  /\ \A c \in Consumers :
       /\ \A k \in 1..Len(Enq(c)) : Enq(c)[k].isError => k = Len(Enq(c))
       /\ ~overlapped[c] => ServedInQueueOrder(c)

----------------------------------------------------------------------------
\* The items of asyncIterator are 1, 2, ... in order
FirstItems(n) == [k \in 1..n |-> k]

\* C9: if the notifier's first next() settles before asyncIterator is
\* exhausted, takeUntil yields none of the items asyncIterator produces from
\* then on, and when it ends it returns the notifier's IteratorResult; as long
\* as the notifier has not settled, what takeUntil yielded is a prefix of the
\* sequence, and it ends only after yielding all of it, returning undefined.
C9_TakeUntilStopsAtNotifier ==
  /\ out = FirstItems(Len(out))
  /\ (atNotify.settled /\ ~atNotify.ended) =>
       /\ Len(out) <= atNotify.produced
       /\ pc = "done" => retVal = [kind |-> "result", res |-> notifier.res]
  /\ (~atNotify.settled /\ pc = "done") =>
       /\ out = FirstItems(seqLen)
       /\ retVal = [kind |-> "undefined", res |-> Undefined]

\* The notifier produced an item while items of asyncIterator were left, and
\* takeUntil ended with that IteratorResult without yielding them
C9_Witness ==
  /\ pc = "done"
  /\ atNotify.settled /\ ~atNotify.ended
  /\ notifier.res = Result(FALSE, 9)
  /\ Len(out) = 1 /\ seqPos = 2 /\ seqLen = 2

\* C10: once the notifier has produced its first result and every queued job
\* has run, no next() call on takeUntil is still pending, whether or not
\* asyncIterator produces anything more.
C10_PendingAdvanceEndsOnNotifier ==
  ~(notifier.st = "settled" /\ jobs = <<>> /\ pending)

----------------------------------------------------------------------------
Min(x, y) == IF x <= y THEN x ELSE y

\* The number of next() calls made on the upstream sequence a
PullsOfA == Len(SelectSeq(pulls, LAMBDA side : side = "a"))

\* C11: take(count, seq) yields the first items of seq in order, min(count,
\* length) of them when it has ended, and calls next() upstream at most count
\* times: with count <= 0 the first advance reports done with seq neither
\* attached to nor pulled, and with count >= 1 the advance after the count-th
\* yielded item reports done without another pull, whatever seq does.
C11_TakeYieldsFirstAndPullsAtMostCount ==
  /\ out = FirstItems(Len(out))
  /\ pc = "done" =>
       /\ out = FirstItems(IF count <= 0 THEN 0 ELSE Min(count, seqLen))
       /\ returned = Returned("undefined", 0)
  /\ count <= 0 => (~attached /\ pulls = <<>> /\ ~pending /\ pc \in {"start", "done"})
  /\ count >= 1 =>
       /\ PullsOfA <= count
       /\ Len(out) = count => (~pending /\ ~seqPending /\ PullsOfA = count)

\* take(2, seq) over three items ended after two pulls; take(0, seq) ended
\* without attaching
C11_Witness ==
  /\ pc = "done"
  /\ count = 2 /\ seqLen = 3
  /\ out = FirstItems(2)
  /\ PullsOfA = 2
  /\ seqPos = 2

----------------------------------------------------------------------------
\* The items of a part of the history of throttle
ItemsOf(rs) == [k \in 1..Len(rs) |-> rs[k].item]

YieldedAtOnce == SelectSeq(received, LAMBDA r : r.yielded)

Suppressed == SelectSeq(received, LAMBDA r : ~r.yielded)

\* The received items before the k-th that were yielded at once
YieldedBefore(k) == SelectSeq(SubSeq(received, 1, k - 1), LAMBDA r : r.yielded)

\* The item received k-th is in the window of the item yielded before it: its
\* clock reading is less than duration later
InWindow(k) ==
  /\ YieldedBefore(k) # <<>>
  /\ received[k].now - YieldedBefore(k)[Len(YieldedBefore(k))].now < duration

\* C12: throttle yields an item at once exactly when it is the first item
\* received or its clock reading is at least duration later than the reading
\* of the item yielded before it, and suppresses every other item, for all
\* non-decreasing readings from 0 on; with duration <= 0 it yields every item.
C12_YieldsExactlyOutsideWindow ==
  /\ \A k \in 1..Len(received) : received[k].yielded <=> (k = 1 \/ ~InWindow(k))
  /\ duration <= 0 => Suppressed = <<>>

\* With readings that are all positive, and with duration <= 0, the statement
\* of C12 holds: it fails only when an item is yielded at the reading 0, the
\* value lastYield has before the first yield.
HoldsWithPositiveReadings ==
  ((\A k \in 1..Len(received) : received[k].now > 0) \/ duration <= 0) =>
    C12_YieldsExactlyOutsideWindow

Last(s) == s[Len(s)]

\* C13 as stated: when seq has completed and throttle has ended, it has
\* yielded, after the items yielded at once, the most recently suppressed item
\* if any item was suppressed, and nothing more if none was.
C13_FlushesIfAnyWithheld ==
  pc = "done" =>
    out = ItemsOf(YieldedAtOnce)
            \o (IF Suppressed # <<>> THEN <<Last(Suppressed).item>> ELSE <<>>)

\* C13, amended: until seq completes throttle yields only the items it yields
\* at once; when seq completes it yields the last item received once more
\* before reporting done if that item was suppressed (an item was withheld
\* since the last yield), and nothing more if the last item received was
\* yielded or no item was received.
C13_FlushesLastItemIfWithheld ==
  LET flush == IF received # <<>> /\ ~Last(received).yielded
                 THEN <<Last(received).item>> ELSE <<>>
  IN /\ pc \in {"start", "awaitSeq", "yield"} => out = ItemsOf(YieldedAtOnce)
     /\ pc = "flush" => (flush # <<>> /\ seqResult.done /\ ~pending)
     /\ pc \in {"flush", "done"} => out = ItemsOf(YieldedAtOnce) \o flush

\* Two items were suppressed after the first, seq completed, and the last one
\* was yielded before done was reported
C13_Witness ==
  /\ pc = "done"
  /\ Len(received) = 3
  /\ Len(Suppressed) = 2
  /\ out = <<1, 3>>

----------------------------------------------------------------------------
\* The number of iteratorB.next() calls made
PullsOfB == Len(SelectSeq(pulls, LAMBDA side : side = "b"))

\* The completion of a, of b, has been delivered to zip
AEnded == PullsOfA = seqLen + 1 /\ ~seqPending
BEnded == PullsOfB = bLen + 1 /\ ~bPending

\* C14 as stated: after the pairs zip ends with the input that ended first:
\* with lengths m <= n of a and b with a (the shorter one, or the first
\* checked when both end at the same step), with m > n with b.
C14_ReturnsSideThatEndedFirst ==
  pc = "done" => returned = Returned(IF seqLen <= bLen THEN "a" ELSE "b", 0)

\* C14, amended: after the pairs zip ends with a return value that identifies
\* the side that had not ended when the other one did: b when only a has
\* ended, a when only b has ended, and undefined, naming neither, when both
\* ended at the same step; one side at least has ended.
C14_ReturnsSideThatHadNotEnded ==
  pc = "done" =>
    /\ AEnded \/ BEnded
    /\ returned.st = "returned"
    /\ returned.type = "b" <=> (AEnded /\ ~BEnded)
    /\ returned.type = "a" <=> (BEnded /\ ~AEnded)
    /\ returned.type = "undefined" <=> (AEnded /\ BEnded)

\* a of length 1 ended first, b of length 2 had not: zip ended with b
C14_Witness ==
  /\ pc = "done"
  /\ seqLen = 1 /\ bLen = 2
  /\ AEnded /\ ~BEnded
  /\ Len(out) = 1
  /\ returned = Returned("b", 0)

\* C15: with inputs of different lengths zip ends with the longer input
\* object as its return value (a when b is shorter, b when a is shorter),
\* and with inputs of the same length with undefined.
C15_ReturnsLongerInput ==
  pc = "done" =>
    returned = Returned(IF seqLen > bLen THEN "a"
                        ELSE IF seqLen < bLen THEN "b" ELSE "undefined", 0)

\* zip of 3 and 2 items ended with a, after two pairs
C15_Witness ==
  /\ pc = "done"
  /\ seqLen = 3 /\ bLen = 2
  /\ Len(out) = 2
  /\ returned = Returned("a", 0)

\* C16: zip yields the pairs [a_i, b_i] in order, min(m, n) of them when it
\* has ended, and advances a and then b once each for every pair: the calls
\* of next() alternate between a and b, starting with a.
C16_PairsInLockstep ==
  /\ \A i \in 1..Len(out) : out[i] = <<i, 0 - i>>
  /\ pc = "done" => Len(out) = Min(seqLen, bLen)
  /\ \A k \in 1..Len(pulls) : pulls[k] = IF k % 2 = 1 THEN "a" ELSE "b"
  /\ pc = "yield" => (PullsOfA = Len(out) /\ PullsOfB = Len(out))
  /\ seqPos <= Len(out) + 1 /\ bPos <= Len(out) + 1

\* zip of 2 and 3 items yielded two pairs with two calls on each side
C16_Witness ==
  /\ pc = "yield"
  /\ seqLen = 2 /\ bLen = 3
  /\ out = <<(<<1, 0 - 1>>), (<<2, 0 - 2>>)>>
  /\ pulls = <<"a", "b", "a", "b">>

----------------------------------------------------------------------------
\* init combined left to right with the first n items of the sequence
RECURSIVE FoldOver(_, _, _)
FoldOver(f, init, n) ==
  IF n = 0 THEN init ELSE Combine(f, FoldOver(f, init, n - 1), n)

C18_ScanYieldsEachAccumulator ==
  /\ \A j \in 1..Len(out) : out[j] = FoldOver(combine, initialValue, j)
  /\ Len(out) <= seqPos
  /\ (pc \in {"yield", "done"}) => Len(out) = seqPos
  /\ pc = "done" =>
       /\ seqPos = seqLen
       /\ returned = Returned("number", FoldOver(combine, initialValue, seqLen))
       /\ seqLen = 0 => (out = <<>> /\ returned = Returned("number", initialValue))

\* scan(0, sum, <<1, 2, 3>>) yielded 1, 3, 6 and ended with 6
C18_Witness ==
  /\ pc = "done"
  /\ seqLen = 3 /\ combine = "sum" /\ initialValue = 0
  /\ out = <<1, 1 + 2, 1 + 2 + 3>>
  /\ returned = Returned("number", 1 + 2 + 3)

----------------------------------------------------------------------------
\* The items of seq that decide the operator: those that fail fn for all,
\* those that pass it for any and find
Deciding ==
  {i \in 1..seqLen : IF operator = "all" THEN i \notin fn ELSE i \in fn}

FirstDeciding == CHOOSE i \in Deciding : \A j \in Deciding : i <= j

\* C19: all resolves true iff every item of seq satisfies fn and any resolves
\* true iff some item does (true and false for an empty seq); the deciding
\* item (the first that fails for all, the first that passes for any) is the
\* last item pulled: once it is delivered the promise settles, no further
\* next() call is made, and the completion of seq is not awaited.
C19_AllAnyDecideAndShortCircuit ==
  /\ pc = "done" =>
       /\ operator = "all" =>
             returned = Returned("boolean", Bool(\A i \in 1..seqLen : i \in fn))
       /\ operator = "any" =>
             returned = Returned("boolean", Bool(\E i \in 1..seqLen : i \in fn))
  /\ Deciding # {} =>
       /\ PullsOfA <= FirstDeciding
       /\ pc = "done" => (seqPos = FirstDeciding /\ ~seqPending /\ ~AEnded)
       /\ (seqPos = FirstDeciding /\ jobs = <<>>) => (pc = "done" /\ ~pending)
  /\ Deciding = {} => (pc = "done" => AEnded)

\* all settled false at the second of three items, the first and the third
\* satisfying fn
C19_Witness ==
  /\ pc = "done"
  /\ seqLen = 3 /\ seqPos = 2 /\ PullsOfA = 2
  /\ operator = "all" /\ fn = {1, 3}
  /\ returned = Returned("boolean", 0)

\* any settled true at the second of three items
AnySettledAtSecond ==
  /\ pc = "done"
  /\ seqLen = 3 /\ seqPos = 2 /\ PullsOfA = 2
  /\ operator = "any" /\ fn = {2, 3}
  /\ returned = Returned("boolean", 1)

\* C20: find resolves with the first item of seq that satisfies fn, and that
\* item is the last one pulled; when seq ends without such an item, or is
\* empty, find resolves, with undefined, after the completion of seq.
C20_FindFirstOrUndefined ==
  /\ Deciding # {} =>
       /\ PullsOfA <= FirstDeciding
       /\ pc = "done" =>
            /\ returned = Returned("number", FirstDeciding)
            /\ seqPos = FirstDeciding /\ ~seqPending /\ ~AEnded
       /\ (seqPos = FirstDeciding /\ jobs = <<>>) => (pc = "done" /\ ~pending)
  /\ Deciding = {} =>
       /\ pc = "done" => (AEnded /\ returned = Returned("undefined", 0))
       /\ (AEnded /\ jobs = <<>>) => (pc = "done" /\ ~pending)

\* find resolved with the second of three items, the third satisfying fn too
C20_Witness ==
  /\ pc = "done"
  /\ seqLen = 3 /\ fn = {2, 3}
  /\ PullsOfA = 2
  /\ returned = Returned("number", 2)

\* The keys that fn returns for the items of the sequence
Produced == {keys[i] : i \in 1..seqLen}

\* The values, in order, of those of the first n items for which fn returns key
RECURSIVE ValuesOf(_, _)
ValuesOf(key, n) ==
  IF n = 0 THEN <<>>
  ELSE ValuesOf(key, n - 1) \o (IF keys[n] = key THEN <<n>> ELSE <<>>)

\* C21: collect and collectRecord map each key that fn produced to the value of
\* the last item that produced it, without merge, and to the left fold of
\* merge over the values produced for it, in order, with merge; merge is
\* called only for a key that an earlier item of the run produced.
C21_MergesOnlyValuesOfTheRun ==
  /\ \A k \in 1..Len(mergeCalls) :
       \E j \in 1..(mergeCalls[k].item - 1) : keys[j] = mergeCalls[k].key
  /\ pc = "done" =>
       /\ DOMAIN collection = Produced
       /\ \A key \in Produced :
            collection[key] =
              IF merge = "undefined" THEN <<Last(ValuesOf(key, seqLen))>>
              ELSE ValuesOf(key, seqLen)

\* C21 holds of collect, and of collectRecord when no key is the name of a
\* property of Object.prototype
HoldsWithOwnKeys ==
  (operator = "collect" \/ Produced \cap DOMAIN ObjectPrototype = {})
    => C21_MergesOnlyValuesOfTheRun

\* collect merged the values of the first and the third item under one key, and
\* kept the value of the second under another
CollectMerged ==
  /\ pc = "done"
  /\ operator = "collect" /\ merge = "concat"
  /\ seqLen = 3 /\ keys = <<"toString", "x", "toString">>
  /\ collection = [key \in {"x", "toString"} |->
                     IF key = "x" THEN <<2>> ELSE <<1, 3>>]

\* collectRecord called merge for the first value of the key toString
RecordMergedInherited ==
  /\ pc = "done"
  /\ operator = "collectRecord" /\ merge = "concat"
  /\ seqLen = 1 /\ keys[1] = "toString"
  /\ collection["toString"] = <<0, 1>>

\* x has a function-valued next, Symbol.iterator or Symbol.asyncIterator
HasSequenceCapability(v) ==
  /\ v # JsNull /\ v # JsUndefined
  /\ "function" \in {v.next, v.iterator, v.asyncIterator}

\* C22: a call op(fn, x) of collect or collectRecord is the full call on the
\* sequence x, without options, exactly when x is not null and has a function
\* as next, Symbol.iterator or Symbol.asyncIterator; otherwise it returns a
\* function which, given the sequence, makes the call with x as the options.
C22_SecondArgumentIsSequenceIffCapable ==
  LET r == applied["op(fn, x)"]
  IN r # NotCalled =>
       /\ HasSequenceCapability(argX) <=> r = Func(<<TheFn, argX, JsUndefined>>)
       /\ ~HasSequenceCapability(argX) =>
            /\ r.kind = "function"
            /\ Apply(r, <<argSeq>>) = Func(<<TheFn, argSeq, argX>>)

\* op(fn, x) was called with an x that has next as its only function: it was
\* taken as the sequence
C22_Witness ==
  /\ argX = JsValue("object", "function", "other", "absent", "absent")
  /\ applied["op(fn, x)"] = Func(<<TheFn, argX, JsUndefined>>)

\* op(fn, x) was called with an x that has the three properties, none of them a
\* function: it was taken as the options
OptionsWithoutCapability ==
  /\ argX = JsValue("object", "other", "other", "other", "absent")
  /\ applied["op(fn, x)"] = Function("(b) => func(a, b, options)", <<TheFn, argX>>)

\* The calls that were made of the shapes ss returned the same
SameResult(ss) ==
  \A s1 \in ss, s2 \in ss :
    (applied[s1] # NotCalled /\ applied[s2] # NotCalled) => applied[s1] = applied[s2]

\* C23: the shape of a call does not change its result: op(a)(b) is op(a, b),
\* op(init, combine)(seq) is op(init, combine, seq), and op(fn, seq, opts),
\* op(fn)(seq, opts) and op(fn, opts)(seq) are the same call.
C23_ShapesGiveSameCall ==
  /\ SameResult({"op(a, b)", "op(a)(b)"})
  /\ SameResult({"op(init, combine, seq)", "op(init, combine)(seq)"})
  /\ SameResult({"op(fn, seq, opts)", "op(fn)(seq, opts)", "op(fn, opts)(seq)"})
  /\ \A shape \in Shapes \ {"op(fn, x)"} :
       applied[shape] # NotCalled => applied[shape].kind = "call"

\* The three shapes of collect were called with the options {merge}, and the
\* two shapes of fold and of a binary operator
C23_Witness ==
  /\ argOptions = WithMerge
  /\ \A shape \in Shapes \ {"op(fn, x)"} : applied[shape] # NotCalled
  /\ applied["op(fn, opts)(seq)"] = Func(<<TheFn, argSeq, WithMerge>>)
  /\ applied["op(init, combine)(seq)"] = Func(<<TheInit, TheFn, argSeq>>)
  /\ applied["op(a)(b)"] = Func(<<TheFn, argSeq, JsUndefined>>)

\* What a step that takes c out of _subscribers does, and what an accepted
\* next(v) does to the queue of an attached consumer c
RemovedWithTerminal(c) ==
  (c \notin Range(_subscribers')) =>
    /\ ops' # ops /\ lastOp'.op \in {"throw", "done"}
    /\ Len(Enq(c)') = Len(Enq(c)) + 1
    /\ IsTerminal(Last(Enq(c)'))

PushQueued(c) ==
  (ops' # ops /\ lastOp'.op = "next" /\ lastOp'.fault # "disposed") =>
    Enq(c)' = Append(Enq(c), ValueItem(ops'))

\* C24: a consumer leaves _subscribers only in the throw() or done() that
\* enqueues its terminal item, and whatever its cursor is used for, or no
\* longer used for, every next(v) that the Subject accepts while it is attached
\* appends v to its queue.
C24_AttachedUntilTerminalAndEveryPushQueued ==
  [][\A c \in Range(_subscribers) : RemovedWithTerminal(c) /\ PushQueued(c)]_vars

\* The first half of C24 holds as it is, and the second on runs in which no
\* cursor had overlapping next() calls
RemovedOnlyWithTerminal ==
  [][\A c \in Range(_subscribers) : RemovedWithTerminal(c)]_vars

PushQueuedWithoutOverlap ==
  [][NoOverlap => \A c \in Range(_subscribers) : PushQueued(c)]_vars

\* A cursor that was advanced once, got the first value and was left alone: the
\* value pushed since is in its queue
AbandonedCursorBuffers ==
  \E c \in Range(_subscribers) :
    /\ Len(calls[c]) = 1 /\ calls[c][1].st = "settled"
    /\ shifted[c] = <<ValueItem(1)>> /\ items[c] = <<ValueItem(2)>>

\* C25: map over a Subject does not attach when it is called but in the first
\* next() call on its generator: no value pushed before that call is ever
\* yielded, and while the Subject is given values the cursor's queue has been
\* given every value pushed since.
C25_AttachesAtFirstAdvanceAndBuffersSince ==
  /\ pc = "start" => (cursor = 0 /\ ~attached)
  /\ cursor # 0 => attachAt[cursor] = atFirstAdvance
  /\ \A k \in 1..Len(out) : \A v \in 1..atFirstAdvance : out[k] # MapFn(v)
  /\ (cursor # 0 /\ ~doneCalled) => Enq(cursor) = ValueItems(PushedSince(cursor))

\* C25 holds on runs in which no cursor had overlapping next() calls
AttachesAtFirstAdvanceWithoutOverlap ==
  NoOverlap => C25_AttachesAtFirstAdvanceAndBuffersSince

\* A value was pushed before the first next() call on the generator and one
\* after it: the second alone was yielded
YieldedOnlyPushedSince ==
  /\ atFirstAdvance = 1
  /\ pushed = <<1, 2>>
  /\ out = <<MapFn(2)>>

\* The i-th result of the generator: fn of the i-th item its cursor delivered,
\* the completion, and done for every call after the completion
DerivedResult(i) ==
  IF i > Len(shifted[cursor]) THEN DoneItem
  ELSE IF IsTerminal(shifted[cursor][i]) THEN shifted[cursor][i]
  ELSE ValueItem(MapFn(shifted[cursor][i].value))

\* C26: however next() calls on the generator of map over a Subject and pushes
\* interleave, the generator has at most one next() call unsettled on its
\* Subject cursor, and its own calls settle in the order they were made, the
\* i-th with the i-th result.
C26_AdvancesServedOneAtATime ==
  /\ cursor # 0 =>
       /\ ~overlapped[cursor]
       /\ Cardinality({i \in 1..Len(calls[cursor]) :
                         calls[cursor][i].st # "settled"}) <= 1
       /\ Len(listeners[cursor]) <= 1
  /\ \A k \in 1..Len(settledAs) :
       /\ settledAs[k].advance = k
       /\ settledAs[k].res = DerivedResult(k)

\* Two next() calls were made on the generator before a value was pushed: the
\* first settled, with the first value, while the second was unsettled, and
\* the second settled with the second value
C26_Witness ==
  /\ Len(settledAs) = 2
  /\ settledAs[1].queued = 2
  /\ settledAs[1].res = ValueItem(MapFn(1))
  /\ settledAs[2].res = ValueItem(MapFn(2))

\* The next() calls of cursor c whose promise has been resolved or rejected
Served(c) == {i \in 1..Len(calls[c]) : calls[c][i].st \in {"inner", "settled"}}

\* From a state in which done() has been called and the queue of c is empty, a
\* step leaves the queue empty and settles no call of c
StaysUnsettled(c) ==
  (doneCalled /\ items[c] = <<>>) => (items'[c] = <<>> /\ Served(c)' = Served(c))

\* C27: once done() has been called, a next() call on a cursor whose queue is
\* empty never settles: the completion is the last item a cursor is given, so
\* a cursor that delivered it has an empty queue, and so has, and keeps, a
\* cursor created after done().
C27_NoAdvanceSettlesAfterDone ==
  /\ [](\A c \in Consumers : DoneItem \in Range(shifted[c]) => items[c] = <<>>)
  /\ [][\A c \in Consumers : StaysUnsettled(c)]_vars

\* C27 holds on runs without throw() in which no cursor had overlapping calls
UnsettledWithoutOverlap ==
  [][(NoOverlap' /\ ~throwCalled') => \A c \in Consumers : StaysUnsettled(c)]_vars

\* A cursor that delivered its completion was advanced again: the call is
\* suspended on a listener, no job is queued, and the Subject is disposed
AdvanceHangsAfterDone ==
  /\ _isDisposed /\ micro = <<>>
  /\ \E c \in 1..created :
       /\ shifted[c] = <<DoneItem>>
       /\ Len(calls[c]) = 2
       /\ calls[c][1].st = "settled" /\ calls[c][1].res = DoneItem
       /\ calls[c][2].st = "suspended"

\* A first done() was cut short, a cursor was created and advanced after it,
\* and a second done() gave that cursor a completion
CompletedAfterDone ==
  /\ ops = 2 /\ pushed = <<>> /\ ~throwCalled
  /\ lastOp.op = "done" /\ lastOp.afterDone
  /\ \E c \in 1..created :
       /\ attachAt[c] = 1
       /\ Len(calls[c]) = 1
       /\ calls[c][1].st = "settled" /\ calls[c][1].res = DoneItem

\* C28: an item that throttle suppressed is dropped when a later item is
\* yielded at once: it is not remembered any more and is never yielded, so the
\* one item that throttle yields beyond those yielded at once is, at the
\* completion of seq, the last item received, when that item was suppressed.
C28_WithheldItemDroppedAtNextYield ==
  /\ (received # <<>> /\ Last(received).yielded) => (~hasItem /\ lastItem = 0)
  /\ \A k \in 1..Len(received) :
       (~received[k].yielded /\ \E j \in (k + 1)..Len(received) : received[j].yielded)
         => received[k].item \notin Range(out)
  /\ Len(out) > Len(YieldedAtOnce) =>
       /\ pc \in {"flush", "done"} /\ seqResult.done
       /\ ~Last(received).yielded
       /\ out = Append(ItemsOf(YieldedAtOnce), Last(received).item)

\* The second item was suppressed and the third yielded at once: at the
\* completion of seq nothing was flushed, and the second item was never yielded
C28_Witness ==
  /\ pc = "done"
  /\ Len(received) = 3
  /\ received[1].yielded /\ ~received[2].yielded /\ received[3].yielded
  /\ out = <<1, 3>>

\* C29: when zip has ended on inputs of different lengths, the longer input
\* has produced exactly one item more than there are pairs, that item is in
\* no pair, and the longer input is the one returned: item m + 1 of a when b
\* has m items, item m + 1 of b when a has m items.
C29_LongerInputLosesOneItem ==
  /\ seqPos <= Min(seqLen, bLen) + 1 /\ bPos <= Min(seqLen, bLen) + 1
  /\ \A i \in 1..Len(out) : out[i][1] <= Min(seqLen, bLen) /\ 0 - out[i][2] <= Min(seqLen, bLen)
  /\ (pc = "done" /\ seqLen > bLen) =>
       /\ Len(out) = bLen /\ bPos = bLen
       /\ seqPos = bLen + 1
       /\ returned = Returned("a", 0)
  /\ (pc = "done" /\ seqLen < bLen) =>
       /\ Len(out) = seqLen /\ seqPos = seqLen
       /\ bPos = seqLen + 1
       /\ returned = Returned("b", 0)

\* zip of 3 items and 1 item ended: a has produced its second item, which is
\* in no pair, and a is returned
C29_Witness ==
  /\ pc = "done"
  /\ seqLen = 3 /\ bLen = 1
  /\ seqPos = 2
  /\ out = <<(<<1, 0 - 1>>)>>
  /\ returned = Returned("a", 0)

\* zip of 1 item and 3 items ended: b has produced its second item, which is
\* in no pair, and b is returned
LostItemOfB ==
  /\ pc = "done"
  /\ seqLen = 1 /\ bLen = 3
  /\ bPos = 2
  /\ out = <<(<<1, 0 - 1>>)>>
  /\ returned = Returned("b", 0)

\* takeUntil has stopped, or is stopping, because the notifier resolved
StoppedByNotifier == pc = "awaitReturn" \/ (pc = "done" /\ retVal.kind = "result")

\* C30: a next() call made on takeUntil after the notifier resolved pulls a
\* result from seq, as every call does, before the generator stops; nothing is
\* yielded once the notifier has resolved, so when takeUntil stops on an item
\* of seq, that item has been consumed and is not among the items yielded.
C30_PullsOnceMoreAfterNotifier ==
  /\ [][(didResolve /\ pc = "yield" /\ pending') => (seqPending' /\ pc' = "awaitSeq")]_vars
  /\ [][didResolve => out' = out]_vars
  /\ [](StoppedByNotifier =>
          /\ didResolve
          /\ IF seqResult.done THEN seqPos = Len(out)
             ELSE /\ seqPos = Len(out) + 1
                  /\ seqResult.value = seqPos
                  /\ seqResult.value \notin Range(out))

\* The notifier resolved after the first item was produced; takeUntil stopped on
\* the second item, which seq has produced and takeUntil has not yielded
C30_Witness ==
  /\ pc = "done" /\ retVal.kind = "result"
  /\ atNotify.produced = 1
  /\ seqLen = 3 /\ seqPos = 2
  /\ ~seqResult.done /\ seqResult.value = 2
  /\ out = <<1>>

\* No next() call is made on takeUntil, suspended at a yield, after the
\* notifier resolved (this is not so: such calls are made)
NoAdvanceAfterNotifier ==
  [][~(didResolve /\ pc = "yield" /\ pending')]_vars

====
